---- MODULE Spec2Model ----
(***************************************************************************)
(* incback: an rsync wrapper that writes timestamped snapshots and links   *)
(* each new snapshot against the previous one.                             *)
(*                                                                         *)
(* The model follows one command-line process at a time, from the loading  *)
(* of its configuration (config.ts, type-guards.ts) through the steps of   *)
(* backup() (backup.ts), each await of an external command being one       *)
(* step, to the exit of the process.  Processes are run one after the      *)
(* other against the same destination, whose snapshot directories persist. *)
(* A process takes its configuration from its command line or from a JSON  *)
(* file, as getConfig decides.  A second specification, SpecStamp, applies *)
(* the generation of a snapshot name to two instants of the wall clock.    *)
(*                                                                         *)
(* Text is modelled as follows.  A path is the sequence of its components, *)
(* an absolute path starting with the component "/".  Captured output of a *)
(* child process is a sequence of tokens, the tokens " " and "\n" being    *)
(* white space.  A JavaScript value of a configuration field is a record   *)
(* [t, s] (plain strings) or [t, p] (paths), t being what typeof gives.    *)
(* Text that is compared as a string is a sequence of characters.          *)
(***************************************************************************)
EXTENDS Integers, Sequences, FiniteSets, TLC

\* Largest wall-clock second the model reaches.
MaxClock == 1

\* The latest year of the instants names are generated at.
LastYear == 10000

\* The most calls of getLogger, and the most messages logged, in a process
\* that uses the logger.
MaxGetLogger == 2
MaxMessages == 2

\* The most calls of getConfig, getLogger and backup() together in a process
\* that uses the modules as a library.
MaxUses == 6

-----------------------------------------------------------------------------
(* JavaScript values of configuration fields *)

Undefined == [t |-> "undefined", s |-> ""]
Str(x) == [t |-> "string", s |-> x]
NotAString == [t |-> "number", s |-> ""]

PUndefined == [t |-> "undefined", p |-> <<>>]
PStr(x) == [t |-> "string", p |-> x]
PNotAString == [t |-> "number", p |-> <<>>]

\* if (v) for a field holding a string or undefined
Truthy(v) == v.t = "string" /\ v.s # ""
PTruthy(v) == v.t = "string" /\ v.p # <<>>

\* v ?? d
OrElse(v, d) == IF v.t = "undefined" THEN d ELSE v.s
POrElse(v, d) == IF v.t = "undefined" THEN d ELSE v.p

-----------------------------------------------------------------------------
(* Paths *)

cwd == <<"/", "work">>

isAbsolute(p) == p # <<>> /\ p[1] = "/"

RECURSIVE normalize(_, _)
\* path.join normalises its result: "." is dropped and ".." removes the
\* component before it (never the root).
normalize(done, rest) ==
    IF rest = <<>> THEN done
    ELSE IF Head(rest) = "." THEN normalize(done, Tail(rest))
    ELSE IF Head(rest) = ".."
         THEN normalize(IF Len(done) > 1 THEN SubSeq(done, 1, Len(done) - 1) ELSE done,
                        Tail(rest))
    ELSE normalize(Append(done, Head(rest)), Tail(rest))

join(a, b) == normalize(<<>>, a \o b)

basename(p) == IF p = <<>> \/ p = <<"/">> THEN "" ELSE p[Len(p)]

-----------------------------------------------------------------------------
(* exec.ts: running a shell command *)

WhiteSpace == {" ", "\n"}

RECURSIVE trimStart(_)
trimStart(s) ==
    IF s # <<>> /\ Head(s) \in WhiteSpace THEN trimStart(Tail(s)) ELSE s

RECURSIVE trimEnd(_)
trimEnd(s) ==
    IF s # <<>> /\ s[Len(s)] \in WhiteSpace
    THEN trimEnd(SubSeq(s, 1, Len(s) - 1)) ELSE s

trim(s) == trimEnd(trimStart(s))

\* The exit code reported on 'close' when the child was killed by a signal.
NoCode == -1

\* What a spawned child does: fails to spawn ('error' event), or closes with
\* an exit code, having written stdout and stderr.
Outcome(e, c, out, err) == [spawnError |-> e, code |-> c, stdout |-> out, stderr |-> err]

Resolved(v) == [ok |-> TRUE, value |-> v]
Rejected == [ok |-> FALSE, value |-> <<>>]

\* executeCommand, had it ignored the error stream.
executeCommandSloppy(o) ==
    IF o.spawnError THEN Rejected
    ELSE IF o.code # 0 THEN Rejected
    ELSE Resolved(trim(o.stdout))

executeCommand(o) ==
    IF o.spawnError THEN Rejected
    ELSE IF o.code # 0 THEN Rejected
    ELSE IF o.stderr # <<>> THEN Rejected
    ELSE Resolved(trim(o.stdout))

-----------------------------------------------------------------------------
(* type-guards.ts: validation of a configuration object *)

\* isProgramOptions, had it looked at the remote fields only when a role is given.
isProgramOptionsLax(obj) ==
    /\ obj.src.t = "string" /\ obj.dest.t = "string"
    /\ obj.remoteRole.t # "undefined" =>
          /\ obj.remoteRole.t = "string" /\ obj.remoteRole.s \in {"src", "dest"}
          /\ obj.remoteUser.t = "string"
          /\ obj.remoteHost.t = "string"

isProgramOptions(obj) ==
    LET mandatory == obj.src.t = "string" /\ obj.dest.t = "string"
        isRemoteRoleOk == obj.remoteRole.t = "string" /\ obj.remoteRole.s \in {"src", "dest"}
        isRemoteUserOk == obj.remoteUser.t = "string"
        isRemoteHostOk == obj.remoteHost.t = "string"
    IN  IF ~mandatory THEN FALSE
        ELSE IF \/ obj.remoteRole.t # "undefined"
                \/ obj.remoteUser.t # "undefined"
                \/ obj.remoteHost.t # "undefined"
             THEN isRemoteRoleOk /\ isRemoteUserOk /\ isRemoteHostOk
        ELSE TRUE

-----------------------------------------------------------------------------
(* config.ts: from validated options to the configuration *)

\* A prefix is text that ends up inside a path: it is held as a path is, split
\* at "/", its last component being the beginning of the directory's name.
DefaultPrefix == <<"BACKUP-">>
DefaultRsyncOptions == "az"

\* The exclude file's path as optionsToConfig resolves it.
excludePath(p) == IF isAbsolute(p) THEN p ELSE join(cwd, p)

\* A logged message: the level, the fixed text and the path it mentions.
Msg(level, text, arg) == [level |-> level, text |-> text, arg |-> arg]

\* The messages optionsToConfig logs; fileExists is fs.existsSync of the
\* resolved exclude path.
optionsToConfigLog(o, fileExists) ==
    IF PTruthy(o.excludeFrom) /\ ~fileExists
    THEN {Msg("warn", "Exclude file not found: ", excludePath(o.excludeFrom.p))}
    ELSE {}

\* optionsToConfig, had it kept the path of a missing exclude file.
optionsToConfigKeepExclude(o, fileExists) ==
    [src |-> o.src, dest |-> o.dest,
     remoteRole |-> o.remoteRole, remoteUser |-> o.remoteUser, remoteHost |-> o.remoteHost,
     excludeFrom |-> IF PTruthy(o.excludeFrom) THEN PStr(excludePath(o.excludeFrom.p))
                     ELSE o.excludeFrom,
     rsyncOptions |-> o.rsyncOptions,
     backupPrefix |-> PStr(POrElse(o.backupPrefix, DefaultPrefix)),
     isRemoteSrc |-> (o.remoteRole = Str("src")),
     isRemoteDest |-> (o.remoteRole # Str("src") /\ o.remoteRole = Str("dest"))]

\* optionsToConfig, had it set both flags whenever a role is given.
optionsToConfigAnyRole(o, fileExists) ==
    [src |-> o.src, dest |-> o.dest,
     remoteRole |-> o.remoteRole, remoteUser |-> o.remoteUser, remoteHost |-> o.remoteHost,
     excludeFrom |-> IF PTruthy(o.excludeFrom)
                     THEN IF ~fileExists THEN PUndefined
                          ELSE PStr(excludePath(o.excludeFrom.p))
                     ELSE o.excludeFrom,
     rsyncOptions |-> o.rsyncOptions,
     backupPrefix |-> PStr(POrElse(o.backupPrefix, DefaultPrefix)),
     isRemoteSrc |-> Truthy(o.remoteRole),
     isRemoteDest |-> Truthy(o.remoteRole)]

\* A deleted field reads as undefined.
optionsToConfig(o, fileExists) ==
    [src |-> o.src, dest |-> o.dest,
     remoteRole |-> o.remoteRole, remoteUser |-> o.remoteUser, remoteHost |-> o.remoteHost,
     excludeFrom |-> IF PTruthy(o.excludeFrom)
                     THEN IF ~fileExists THEN PUndefined
                          ELSE PStr(excludePath(o.excludeFrom.p))
                     ELSE o.excludeFrom,
     rsyncOptions |-> o.rsyncOptions,
     backupPrefix |-> PStr(POrElse(o.backupPrefix, DefaultPrefix)),
     isRemoteSrc |-> (o.remoteRole = Str("src")),
     isRemoteDest |-> (o.remoteRole # Str("src") /\ o.remoteRole = Str("dest"))]

\* The configuration before a process has loaded one.
NoConfig ==
    [src |-> PUndefined, dest |-> PUndefined,
     remoteRole |-> Undefined, remoteUser |-> Undefined, remoteHost |-> Undefined,
     excludeFrom |-> PUndefined, rsyncOptions |-> Undefined, backupPrefix |-> PUndefined,
     isRemoteSrc |-> FALSE, isRemoteDest |-> FALSE]

-----------------------------------------------------------------------------
(* backup.ts: names, paths and the composed command *)

\* An instant of the wall clock, to the second, by its UTC fields.
Instant(y, mo, d, h, mi, sec) ==
    [year |-> y, month |-> mo, day |-> d, hour |-> h, minute |-> mi, second |-> sec]

\* Text whose order matters is a sequence of characters.
RECURSIVE padLoose(_, _)
\* pad, had the number been written without leading zeros.
padLoose(n, width) ==
    IF n < 10 THEN <<ToString(n)>> ELSE Append(padLoose(n \div 10, width), ToString(n % 10))

RECURSIVE pad(_, _)
\* The decimal digits of n, padded with zeros to the width.
pad(n, width) ==
    IF width = 0 THEN <<>> ELSE Append(pad(n \div 10, width - 1), ToString(n % 10))

\* Date.prototype.toISOString: four digits of year for the years 0 to 9999,
\* a sign and six digits for the others.
toISOString(i) ==
    (IF i.year >= 0 /\ i.year <= 9999 THEN pad(i.year, 4)
     ELSE IF i.year < 0 THEN <<"-">> \o pad(0 - i.year, 6)
     ELSE <<"+">> \o pad(i.year, 6))
    \o <<"-">> \o pad(i.month, 2) \o <<"-">> \o pad(i.day, 2)
    \o <<"T">> \o pad(i.hour, 2) \o <<":">> \o pad(i.minute, 2) \o <<":">> \o pad(i.second, 2)
    \o <<".", "0", "0", "0", "Z">>

\* .replace(/:/g, "")
removeColons(s) == SelectSeq(s, LAMBDA ch : ch # ":")

RECURSIVE beforeDot(_)
\* .split(".")[0]
beforeDot(s) ==
    IF s = <<>> \/ Head(s) = "." THEN <<>> ELSE <<Head(s)>> \o beforeDot(Tail(s))

\* new Date().toISOString().replace(/:/g, "").split(".")[0]; the text
\* without colons is a value v before it is split.
suffix(i) == CHOOSE x \in {beforeDot(v) : v \in {removeColons(toISOString(i))}} : TRUE

RECURSIVE Text(_)
\* The characters as one string.
Text(s) == IF s = <<>> THEN "" ELSE Head(s) \o Text(Tail(s))

\* Second t of the model's clock, which starts at 2025-11-23T19:30:00Z.
instantAt(t) == Instant(2025, 11, 23, 19, 30 + ((t \div 60) % 30), t % 60)

\* The suffix taken at second t of the model's clock, its characters v as
\* one string.
suffixAt(t) == CHOOSE x \in {Text(v) : v \in {suffix(instantAt(t))}} : TRUE

\* The name generated at instant i, as text: the name part of the prefix,
\* then the characters of the suffix.
nameAt(pre, i) == <<pre[Len(pre)]>> \o suffix(i)

\* `${prefix}${suffix}`
prefixed(pre, suf) ==
    SubSeq(pre, 1, Len(pre) - 1) \o <<pre[Len(pre)] \o suf>>

\* path.join(programConfig.dest, prefix + suffix)
currentBackupDirname(c, t) ==
    join(c.dest.p, prefixed(POrElse(c.backupPrefix, DefaultPrefix), suffixAt(t)))

\* The name of the directory the run writes.
backupName(c, t) == basename(currentBackupDirname(c, t))

\* getPath, had it joined every local path onto the working directory.
getPathJoined(c, pathStr, isRemote) ==
    IF isRemote
    THEN <<c.remoteUser.s \o "@" \o c.remoteHost.s \o ":">> \o pathStr
    ELSE join(cwd, pathStr)

getPath(c, pathStr, isRemote) ==
    IF isRemote
    THEN <<c.remoteUser.s \o "@" \o c.remoteHost.s \o ":">> \o pathStr
    ELSE IF isAbsolute(pathStr) THEN pathStr ELSE join(cwd, pathStr)

getSrcPath(c) == getPath(c, c.src.p, c.isRemoteSrc)
getDestPath(c) == getPath(c, c.dest.p, c.isRemoteDest)

\* p followed by "/"
Slash(p) == Append(p, "")

\* One argument of the composed command: the option and its value.
Arg(flag, val) == [flag |-> flag, val |-> val]

\* rsyncCmdOf, had it added the baseline reference in both modes.
rsyncCmdAlwaysLinked(c, pc0, latestBackupDir, t) ==
    <<Arg("rsync", <<"-" \o OrElse(c.rsyncOptions, DefaultRsyncOptions)>>),
      Arg("--delete", <<>>)>>
    \o (IF PTruthy(pc0.excludeFrom) THEN <<Arg("--exclude-from", pc0.excludeFrom.p)>> ELSE <<>>)
    \o <<Arg("--link-dest", Slash(<<"..", basename(latestBackupDir)>>))>>
    \o <<Arg("src", Slash(getSrcPath(c))),
         Arg("dest", Slash(Append(getDestPath(c), basename(currentBackupDirname(pc0, t)))))>>

\* The command backup() composes: c is the module's config, pc0 the
\* programConfig parameter, latestBackupDir <<>> when there is none.
rsyncCmdOf(c, pc0, latestBackupDir, t) ==
    <<Arg("rsync", <<"-" \o OrElse(c.rsyncOptions, DefaultRsyncOptions)>>),
      Arg("--delete", <<>>)>>
    \o (IF PTruthy(pc0.excludeFrom) THEN <<Arg("--exclude-from", pc0.excludeFrom.p)>> ELSE <<>>)
    \o (IF latestBackupDir = <<>> THEN <<>>
        ELSE <<Arg("--link-dest", Slash(<<"..", basename(latestBackupDir)>>))>>)
    \o <<Arg("src", Slash(getSrcPath(c))),
         Arg("dest", Slash(Append(getDestPath(c), basename(currentBackupDirname(pc0, t)))))>>

\* The messages backup() logs before it runs the command.
backupLog(c, pc0, latestBackupDir, t) ==
    { IF latestBackupDir = <<>>
      THEN Msg("log", "Initial backup to ",
               Append(getDestPath(c), basename(currentBackupDirname(pc0, t))))
      ELSE Msg("log", "Incremental backup with link-dest to ",
               Append(pc0.dest.p, basename(latestBackupDir))),
      Msg("log", "Executing command:", <<>>) }

-----------------------------------------------------------------------------
(* The destination's snapshot directories and the listing *)

\* A snapshot directory under the destination: its name, the second its
\* name was stamped at, and its modification time.
Snap(name, t, mtime) == [name |-> name, t |-> t, mtime |-> mtime]

\* first, had ls listed the oldest modification time first (ls -dtr).
firstOldest(S) ==
    CHOOSE e \in S : \A f \in S :
        \/ e.mtime < f.mtime
        \/ e.mtime = f.mtime /\ e.t <= f.t

\* ls -dt "<dest>/<prefix>"* | head -n 1: the entries whose name starts with
\* the prefix, newest modification time first; entries of equal time are
\* listed in name order, which for stamped names is the order of the stamps.
first(S) ==
    CHOOSE e \in S : \A f \in S :
        \/ e.mtime > f.mtime
        \/ e.mtime = f.mtime /\ e.t <= f.t

\* What the listing pipeline does on the machine holding the destination:
\* with no match ls complains on stderr and head exits 0.
lsOutcome(c, S) ==
    IF S = {} THEN Outcome(FALSE, 0, <<>>, <<"ls: cannot access">>)
    ELSE Outcome(FALSE, 0, Append(Append(c.dest.p, first(S).name), "\n"), <<>>)

\* The entries the pattern "<dest>/<prefix>"* matches: with "/" in the prefix
\* the pattern names entries of a directory below the destination, where
\* no run writes.
matching(c, S) ==
    LET prefix == POrElse(c.backupPrefix, DefaultPrefix)
    IN  IF Len(prefix) = 1
        THEN {e \in S : e.name = prefix[1] \o suffixAt(e.t)}
        ELSE {}

-----------------------------------------------------------------------------
(* External commands: what ssh, mkdir, ls and rsync can do *)

\* No child was spawned (a local fs call, or a command refused before spawn).
NoOutcome == Outcome(FALSE, 0, <<>>, <<>>)

\* ssh cannot reach the host (exit 255 and a complaint), or cannot be spawned.
SshDown ==
    { Outcome(FALSE, 255, <<>>, <<"ssh: connect to host failed">>),
      Outcome(TRUE, NoCode, <<>>, <<>>) }

\* The outcomes of an ssh command whose remote command would do `honest`:
\* the connection can fail at any time; if the host is up the command can
\* run, possibly with a warning of ssh on stderr or a banner on stdout.
sshOutcomes(up, honest) ==
    SshDown \cup
    (IF up
     THEN { honest,
            [honest EXCEPT !.stderr = <<"Warning: Permanently added host">> \o @],
            [honest EXCEPT !.stdout = <<"banner", "\n">> \o @] }
     ELSE {})

\* test -e "<path>" && echo exists || echo not_exists
testOutcome(exists) ==
    Outcome(FALSE, 0, <<IF exists THEN "exists" ELSE "not_exists", "\n">>, <<>>)

mkdirOk == Outcome(FALSE, 0, <<>>, <<>>)
mkdirFail == Outcome(FALSE, 1, <<>>, <<"mkdir: cannot create directory">>)

\* rsync: success, success with a warning on stderr, an error exit, death by
\* a signal, or no spawn at all.
rsyncOutcomes ==
    { Outcome(FALSE, 0, <<>>, <<>>),
      Outcome(FALSE, 0, <<>>, <<"rsync: warning">>),
      Outcome(FALSE, 23, <<>>, <<"rsync error: some files could not be transferred">>),
      Outcome(FALSE, NoCode, <<>>, <<>>),
      Outcome(TRUE, NoCode, <<>>, <<>>) }

-----------------------------------------------------------------------------
(* remote-exists.ts and exec.ts: commands over ssh *)

\* remoteExists, had it taken any successful command for "exists".
remoteExistsAnyOutput(o) ==
    LET r == executeCommand(o) IN r.ok

\* remoteExists, had its catch branch returned true.
remoteExistsOptimistic(o) ==
    LET r == executeCommand(o)
    IN  IF r.ok THEN trim(r.value) = <<"exists">> ELSE TRUE

remoteExists(o) ==
    LET r == executeCommand(o)
    IN  IF r.ok THEN trim(r.value) = <<"exists">> ELSE FALSE

\* remoteCommand throws before it spawns anything.
remoteCommandRefuses(c) ==
    OrElse(c.remoteHost, "") = "" \/ OrElse(c.remoteUser, "") = ""

\* remoteCommand, had it thrown only when ssh could not be spawned.
remoteCommandThrowsOnSpawn(o, throwError) ==
    LET r == executeCommand(o)
    IN  IF r.ok THEN r
        ELSE IF throwError /\ o.spawnError THEN Rejected
        ELSE Resolved(<<>>)

\* remoteCommand, had it swallowed every failure.
remoteCommandSwallow(o, throwError) ==
    LET r == executeCommand(o)
    IN  IF r.ok THEN r ELSE Resolved(<<>>)

\* remoteCommand, had it thrown on every failure whatever throwError says.
remoteCommandAlwaysThrows(o, throwError) ==
    LET r == executeCommand(o)
    IN  IF r.ok THEN r ELSE Rejected

remoteCommand(o, throwError) ==
    LET r == executeCommand(o)
    IN  IF r.ok THEN r ELSE IF throwError THEN Rejected ELSE Resolved(<<>>)

\* ssh with an empty user or host cannot connect.
canConnect(c, up) == up /\ c.remoteUser.s # "" /\ c.remoteHost.s # ""

\* existsPath, had it taken every local path to exist.
existsPathAlways(isRemote, exists, o) ==
    IF isRemote THEN remoteExists(o) ELSE TRUE

existsPath(isRemote, exists, o) ==
    IF isRemote THEN remoteExists(o) ELSE exists

\* The outcomes existsPath can meet.
probeOutcomes(c, isRemote, exists, up) ==
    IF isRemote THEN sshOutcomes(canConnect(c, up), testOutcome(exists)) ELSE {NoOutcome}

\* getLatestBackupDir, had it taken what the listing printed though the
\* command failed.
getLatestBackupDirLenient(ch, o) ==
    IF ch \in {"ssh-ls", "ls"} /\ ~o.spawnError /\ o.stdout # <<>>
    THEN trim(o.stdout)
    ELSE <<>>

\* getLatestBackupDir, given the child it awaits ("none": it returned null
\* without spawning) and the child's outcome; <<>> is null.
getLatestBackupDir(ch, o) ==
    IF ch = "ssh-ls"
    THEN LET result == remoteCommand(o, FALSE).value
         IN  IF result # <<>> THEN trim(result) ELSE <<>>
    ELSE IF ch = "ls"
    THEN LET r == executeCommand(o)
         IN  IF r.ok /\ r.value # <<>> THEN trim(r.value) ELSE <<>>
    ELSE <<>>

-----------------------------------------------------------------------------
(* State *)

VARIABLES
    argv,             \* the command line: its length and its --config option
    files,            \* what the configuration file paths hold
    options,          \* the parsed command-line options of the process
    excludeExists,    \* whether the resolved exclude file exists
    srcExists,        \* whether the source path exists, where it lives
    destExists,       \* whether the destination path exists, where it lives
    hostUp,           \* whether the remote host can be reached in this run
    snaps,            \* the snapshot directories under the destination
    now,              \* the wall clock, in seconds
    pc,               \* where the process is: the await it is suspended at
    child,            \* the external command in flight, "none" if none
    config,           \* backup.ts: the module-level config
    programConfig,    \* backup(): its parameter
    stampedAt,        \* the second the run's suffix was taken at
    srcOk,            \* what existsSrcPath resolved to
    destOk,           \* what existsDestPath resolved to
    created,          \* what createDestDir() did: "no" call, "pending", "ok", "failed"
    latestBackupDir,  \* what getLatestBackupDir resolved to, <<>> for null
    rsyncCmd,         \* the composed command
    error,            \* the error the run failed with
    exitCode,         \* the exit code of the process, NoCode while it runs
    logged,           \* the messages logged by the process
    ops,              \* the external operations the run has started, in order
    lastExec,         \* the last child that ended: its kind and outcome
    prev,             \* the run before this one: whether it succeeded, and
                      \* the directory name it wrote to
    configFile,       \* the configuration file the process looked for, <<>> if none
    inflight,         \* the children spawned by the process and not yet closed
    t1, t2,           \* two instants of the wall clock
    names,            \* the names generated at t1 and at t2, <<>> before
    loggerInstance,   \* exec.ts: the module-level loggerInstance
    getLoggerCalls,   \* the calls of getLogger: the caller's logFile, the instance returned
    logCalls,         \* the messages passed to the logger, in order
    console,          \* what was written to the console, in order
    fileLines,        \* what was written to file streams, in order
    cachedConfig,     \* config.ts: the module-level config, NoConfig for null
    getConfigCalls,   \* the number of calls of getConfig
    calls,            \* the calls of backup(): each one's parameter, position and steps
    assigned,         \* how often each module-level variable was assigned
    written           \* the snapshot written last: its name, and whether an rsync
                      \* that exited 0 has written it

world == <<argv, files, options, excludeExists, srcExists>>
run == <<config, programConfig, stampedAt>>
vars == <<argv, files, options, excludeExists, srcExists, destExists, hostUp, snaps, now, pc,
          child, config, programConfig, stampedAt, srcOk, destOk, created,
          latestBackupDir, rsyncCmd, error, exitCode, logged, ops, lastExec, prev,
          configFile, inflight, t1, t2, names,
          loggerInstance, getLoggerCalls, logCalls, console, fileLines,
          cachedConfig, getConfigCalls, calls, assigned, written>>
\* The state of a command-line process but for backup.ts's config.
others == <<world, programConfig, stampedAt, configFile, inflight, destExists, hostUp,
            snaps, now, pc, child, srcOk, destOk, created, latestBackupDir, rsyncCmd,
            error, exitCode, logged, ops, lastExec, prev>>
process == <<config, others, written>>
library == <<cachedConfig, getConfigCalls, calls>>
stamps == <<t1, t2, names>>
logger == <<loggerInstance, getLoggerCalls, logCalls, console, fileLines>>
\* What the steps of a command-line process leave alone.
idle == <<stamps, logger, library, assigned>>
aside == <<idle, written>>

NoError == Msg("none", "", <<>>)
NoExec == [cmd |-> "none", o |-> NoOutcome]
NoPrev == [ran |-> FALSE, ok |-> FALSE, synced |-> FALSE, name |-> ""]

\* The option objects a process is started with.
SrcValues == {PUndefined, PNotAString, PStr(<<"/", "data">>)}
DestValues == {PUndefined, PStr(<<"/", "bk">>)}
RoleValues == {Undefined, NotAString, Str("src"), Str("dest"), Str("both")}
UserValues == {Undefined, NotAString, Str(""), Str("u")}
HostValues == {Undefined, NotAString, Str("h")}
ExcludeValues == {PUndefined, PStr(<<>>), PStr(<<"/", "etc", "ex">>), PStr(<<"..", "ex">>)}

OptionSpace ==
    [src : SrcValues, dest : DestValues,
     remoteRole : RoleValues, remoteUser : UserValues, remoteHost : HostValues,
     excludeFrom : ExcludeValues, rsyncOptions : {Undefined}, backupPrefix : {PUndefined}]

\* What commander yields when no option is given, and what {} parses to.
NoOptions ==
    [src |-> PUndefined, dest |-> PUndefined,
     remoteRole |-> Undefined, remoteUser |-> Undefined, remoteHost |-> Undefined,
     excludeFrom |-> PUndefined, rsyncOptions |-> Undefined, backupPrefix |-> PUndefined]

\* What a path holds for the reader of a configuration file: nothing, text
\* that JSON.parse refuses, or the object the text parses to.
Missing == [kind |-> "missing", obj |-> NoOptions]
Malformed == [kind |-> "malformed", obj |-> NoOptions]
Json(o) == [kind |-> "json", obj |-> o]

\* The objects found in configuration files: complete ones with the sync
\* flags or the prefix set (neither can be set on the command line) or with
\* relative paths, one without dest, one with a role and a host but no user.
LocalObject == [NoOptions EXCEPT !.src = PStr(<<"/", "data">>), !.dest = PStr(<<"/", "bk">>)]
FileObjects ==
    { [LocalObject EXCEPT !.rsyncOptions = Str("a")],
      [LocalObject EXCEPT !.rsyncOptions = Str("avz")],
      [LocalObject EXCEPT !.backupPrefix = PStr(<<"sub", "BK-">>)],
      [LocalObject EXCEPT !.src = PStr(<<"data">>), !.dest = PStr(<<"..", "bk">>)],
      [LocalObject EXCEPT !.dest = PUndefined],
      [LocalObject EXCEPT !.remoteRole = Str("dest"), !.remoteHost = Str("h")] }
FileContents == {Missing, Malformed} \cup {Json(o) : o \in FileObjects}

ConfigPath == <<"/", "etc", "incback.json">>
DefaultPath == join(cwd, <<".incback">>)

\* The command lines: no argument, options without --config, --config <path>
\* with or without other options.
NoArgs == [length |-> 2, config |-> PUndefined]
Flags == [length |-> 4, config |-> PUndefined]
ConfigFlag == [length |-> 4, config |-> PStr(ConfigPath)]

\* The options given next to --config.
OptionsWithConfig == {NoOptions, LocalObject}

OptionsGiven(a) ==
    IF a = NoArgs THEN {NoOptions} ELSE IF a = Flags THEN OptionSpace ELSE OptionsWithConfig

\* The file .incback of the working directory is present and valid wherever
\* the command line has arguments, and varies where it has none.
DefaultObject == [LocalObject EXCEPT !.rsyncOptions = Str("z")]
FilesGiven(a) ==
    { [q \in {ConfigPath, DefaultPath} |->
          IF q = ConfigPath THEN x ELSE y] :
      x \in (IF a = ConfigFlag THEN FileContents ELSE {Missing}),
      y \in (IF a = NoArgs THEN FileContents ELSE {Json(DefaultObject)}) }

\* What the destination holds before the first run: nothing, or a directory
\* that is not a snapshot and was modified last.
Foreign == Snap("archive", 0, MaxClock)
SnapsGiven(a) == IF a = NoArgs THEN {{}, {Foreign}} ELSE {{}}

\* fs.existsSync / fs.readFileSync of a configuration file path
fileAt(fs, q) == IF q \in DOMAIN fs THEN fs[q] ELSE Missing

\* The object the process takes its configuration from, judged by the
\* command line alone.
candidateOf(a, o, fs) ==
    IF a.length <= 2 THEN fileAt(fs, DefaultPath).obj
    ELSE IF PTruthy(a.config) THEN fileAt(fs, a.config.p).obj
    ELSE o

\* A fact of the world that no step reads under options o is fixed: the
\* exclude file when none is configured, the host when nothing is remote.
ExcludeFacts(o) == IF PTruthy(o.excludeFrom) THEN BOOLEAN ELSE {FALSE}
HostFacts(o) == IF isProgramOptions(o) /\ o.remoteRole.t # "undefined" THEN BOOLEAN ELSE {TRUE}

InitProcess ==
    /\ argv \in {NoArgs, Flags, ConfigFlag}
    /\ options \in OptionsGiven(argv)
    /\ files \in FilesGiven(argv)
    /\ excludeExists \in ExcludeFacts(candidateOf(argv, options, files))
    /\ srcExists \in BOOLEAN
    /\ destExists \in BOOLEAN
    /\ hostUp \in HostFacts(candidateOf(argv, options, files))
    /\ snaps \in SnapsGiven(argv)
    /\ written = [name |-> "", complete |-> FALSE]
    /\ now = 0
    /\ pc = "start"
    /\ child = "none"
    /\ config = NoConfig
    /\ programConfig = NoConfig
    /\ stampedAt = 0
    /\ srcOk = "unchecked"
    /\ destOk = "unchecked"
    /\ created = "no"
    /\ latestBackupDir = <<>>
    /\ rsyncCmd = <<>>
    /\ error = NoError
    /\ exitCode = NoCode
    /\ logged = {}
    /\ ops = <<>>
    /\ lastExec = NoExec
    /\ prev = NoPrev
    /\ configFile = <<>>
    /\ inflight = {}

\* The instants names are generated at: years on both sides of the years of
\* four digits, fields of one and of two digits.
Years == {-1, 0, 999, 1000, 9999, LastYear}
Instants ==
    {Instant(y, mo, d, h, 0, sec) :
        y \in Years, mo \in {9, 10}, d \in {9, 10}, h \in {9, 10}, sec \in {9, 10}}

\* No process has started.
NotStarted ==
    /\ InitProcess
    /\ argv = NoArgs /\ files[DefaultPath] = Missing /\ snaps = {}
    /\ ~srcExists /\ ~destExists

\* Before any name is generated.
NoStamps == t1 = instantAt(0) /\ t2 = instantAt(0) /\ names = <<>>

\* loggerInstance is null.
NoLogger == [id |-> 0, logFilePath |-> <<>>, stream |-> "null"]

\* Before any use of the logger.
NoLogging ==
    /\ loggerInstance = NoLogger
    /\ getLoggerCalls = <<>>
    /\ logCalls = <<>>
    /\ console = <<>>
    /\ fileLines = <<>>

\* Before any call of getConfig or backup().
NoCalls ==
    /\ cachedConfig = NoConfig
    /\ getConfigCalls = 0
    /\ calls = <<>>
    /\ assigned = [cachedConfig |-> 0, loggerInstance |-> 0, config |-> 0]

Init ==
    /\ InitProcess
    /\ NoStamps
    /\ NoLogging
    /\ NoCalls

-----------------------------------------------------------------------------
(* Steps of a process *)

\* Exit, had cli.ts reported the error without process.exit(1).
ExitNormally(code, err) ==
    /\ pc' = "exit"
    /\ child' = "none"
    /\ exitCode' = 0
    /\ error' = err

\* The children of the process that have been spawned and have not closed.
\* executeCommand spawns one child; its promise settles when the child has
\* closed (or could not be spawned), and the caller awaits it.
spawned(R, ch) == IF ch = "none" THEN R ELSE R \cup {ch}

\* closed, had the promise settled while the child was still running.
closedEarly(R, ch) == R

closed(R, ch) == R \ {ch}

\* Exit, had the promise of backup() never settled.
ExitNever(code, err) ==
    /\ pc' = pc
    /\ child' = child
    /\ exitCode' = exitCode
    /\ error' = error

\* The process ends: process.exit(1) after an error, or a normal end.
Exit(code, err) ==
    /\ pc' = "exit"
    /\ child' = "none"
    /\ exitCode' = code
    /\ error' = err

SrcError(c) == Msg("error", "Source directory does not exist.", c.src.p)
DestError(c) ==
    Msg("error", "Destination directory does not exist and could not be created.", c.dest.p)
ExecError == Msg("error", "Error executing command", <<>>)
UsageError == Msg("error", "Error: Missing or invalid parameters.", <<>>)

Bool(b) == IF b THEN "true" ELSE "false"

NotFoundError == Msg("error", "Startup error: Configuration file .incback not found in ", cwd)
InvalidFileError == Msg("error", "Startup error: Invalid .incback configuration file", <<>>)

\* What loading ends with: a configuration and the messages logged on the
\* way, or the error the process exits with; path is the configuration
\* file looked for, <<>> if none.
Got(cfg, log, q) == [ok |-> TRUE, config |-> cfg, error |-> NoError, log |-> log, path |-> q]
Failed(err, q) == [ok |-> FALSE, config |-> NoConfig, error |-> err, log |-> {}, path |-> q]

\* parseConfigFromArgs returns null.
Null == Got(NoConfig, {}, <<>>)

\* readConfigFromJSON, had it taken whatever object the file parses to.
readConfigFromJSONUnchecked(configFilePath, fs, fileExists) ==
    LET configPath == IF configFilePath # <<>> THEN configFilePath ELSE DefaultPath
        file == fileAt(fs, configPath)
    IN  IF file.kind = "missing" THEN Failed(NotFoundError, configPath)
        ELSE IF file.kind = "malformed" THEN Failed(InvalidFileError, configPath)
        ELSE Got(optionsToConfig(file.obj, fileExists),
                 optionsToConfigLog(file.obj, fileExists), configPath)

\* readConfigFromJSON(configFilePath); <<>> is its default, "".
readConfigFromJSON(configFilePath, fs, fileExists) ==
    LET configPath == IF configFilePath # <<>> THEN configFilePath ELSE DefaultPath
        file == fileAt(fs, configPath)
    IN  IF file.kind = "missing" THEN Failed(NotFoundError, configPath)
        ELSE IF file.kind = "malformed" THEN Failed(InvalidFileError, configPath)
        ELSE IF ~isProgramOptions(file.obj) THEN Failed(InvalidFileError, configPath)
        ELSE Got(optionsToConfig(file.obj, fileExists),
                 optionsToConfigLog(file.obj, fileExists), configPath)

\* parseConfigFromArgs, had it looked at --config only after the inline options.
parseConfigFromArgsInlineFirst(a, o, fs, fileExists) ==
    IF a.length <= 2 THEN Null
    ELSE IF isProgramOptions(o)
    THEN Got(optionsToConfig(o, fileExists), optionsToConfigLog(o, fileExists), <<>>)
    ELSE IF PTruthy(a.config) THEN readConfigFromJSON(a.config.p, fs, fileExists)
    ELSE Failed(UsageError, <<>>)

parseConfigFromArgs(a, o, fs, fileExists) ==
    IF a.length <= 2 THEN Null
    ELSE IF PTruthy(a.config) THEN readConfigFromJSON(a.config.p, fs, fileExists)
    ELSE IF ~isProgramOptions(o) THEN Failed(UsageError, <<>>)
    ELSE Got(optionsToConfig(o, fileExists), optionsToConfigLog(o, fileExists), <<>>)

getConfig(a, o, fs, fileExists) ==
    LET argsConfig == parseConfigFromArgs(a, o, fs, fileExists)
    IN  IF argsConfig # Null THEN argsConfig
        ELSE readConfigFromJSON(<<>>, fs, fileExists)

\* cli.ts, backupRun, getConfig, and backup() up to its first await.
Start ==
    /\ pc = "start"
    /\ LET loaded == getConfig(argv, options, files, excludeExists)
           cfg == loaded.config
       IN  /\ configFile' = loaded.path
           /\ IF ~loaded.ok
              THEN /\ Exit(1, loaded.error)
                   /\ UNCHANGED <<run, logged, ops>>
              ELSE
                /\ config' = cfg
                /\ programConfig' = cfg
                /\ logged' = logged \cup loaded.log
                /\ stampedAt' = now
                /\ pc' = "srcCheck"
                /\ child' = IF cfg.isRemoteSrc THEN "ssh-probe" ELSE "none"
                /\ ops' = Append(ops, "srcCheck")
                /\ UNCHANGED <<exitCode, error>>
    /\ UNCHANGED <<world, destExists, hostUp, snaps, now, srcOk, destOk, created,
                   latestBackupDir, rsyncCmd, lastExec, prev>>
    /\ inflight' = spawned(closed(inflight, child), child')
    /\ UNCHANGED aside

\* existsSrcPath() resolves.
SrcChecked ==
    /\ pc = "srcCheck"
    /\ \E o \in probeOutcomes(config, config.isRemoteSrc, srcExists, hostUp) :
          LET found == existsPath(config.isRemoteSrc, srcExists, o)
          IN  /\ srcOk' = Bool(found)
              /\ lastExec' = IF config.isRemoteSrc THEN [cmd |-> "ssh-probe", o |-> o]
                             ELSE lastExec
              /\ IF ~found
                 THEN /\ Exit(1, SrcError(programConfig))
                      /\ ops' = ops
                 ELSE /\ pc' = "destCheck"
                      /\ child' = IF config.isRemoteDest THEN "ssh-probe" ELSE "none"
                      /\ ops' = Append(ops, "destCheck")
                      /\ UNCHANGED <<exitCode, error>>
    /\ UNCHANGED <<world, run, configFile, destExists, hostUp, snaps, now, destOk, created,
                   latestBackupDir, rsyncCmd, logged, prev>>
    /\ inflight' = spawned(closed(inflight, child), child')
    /\ UNCHANGED aside

\* getLatestBackupDir() is called: the child it spawns, "none" when it
\* returns null without spawning; de is whether a local destination exists.
listChild(c, de) ==
    IF c.isRemoteDest
    THEN IF remoteCommandRefuses(c) THEN "none" ELSE "ssh-ls"
    ELSE IF de THEN "ls" ELSE "none"

\* existsDestPath() resolves; createDestDir() if it resolved to false.
DestChecked ==
    /\ pc = "destCheck"
    /\ \E o \in probeOutcomes(config, config.isRemoteDest, destExists, hostUp),
          mkdirSyncOk \in BOOLEAN :
          LET found == existsPath(config.isRemoteDest, destExists, o)
          IN  /\ destOk' = Bool(found)
              /\ lastExec' = IF config.isRemoteDest THEN [cmd |-> "ssh-probe", o |-> o]
                             ELSE lastExec
              /\ IF found
                 THEN /\ pc' = "list"
                      /\ child' = listChild(config, destExists)
                      /\ ops' = Append(ops, "list")
                      /\ UNCHANGED <<destExists, created, exitCode, error>>
                 ELSE IF config.isRemoteDest
                 THEN IF remoteCommandRefuses(config)
                      THEN /\ Exit(1, DestError(programConfig))
                           /\ created' = "failed"
                           /\ ops' = Append(ops, "mkdir")
                           /\ UNCHANGED destExists
                      ELSE /\ pc' = "mkdir"
                           /\ child' = "ssh-mkdir"
                           /\ created' = "pending"
                           /\ ops' = Append(ops, "mkdir")
                           /\ UNCHANGED <<destExists, exitCode, error>>
                 ELSE IF mkdirSyncOk
                 THEN /\ destExists' = TRUE
                      /\ created' = "ok"
                      /\ pc' = "list"
                      /\ child' = listChild(config, TRUE)
                      /\ ops' = ops \o <<"mkdir", "list">>
                      /\ UNCHANGED <<exitCode, error>>
                 ELSE /\ Exit(1, DestError(programConfig))
                      /\ created' = "failed"
                      /\ ops' = Append(ops, "mkdir")
                      /\ UNCHANGED destExists
    /\ UNCHANGED <<world, run, configFile, hostUp, snaps, now, srcOk,
                   latestBackupDir, rsyncCmd, logged, prev>>
    /\ inflight' = spawned(closed(inflight, child), child')
    /\ UNCHANGED aside

\* The remote mkdir -p of createDestDir() ends.
MkdirDone ==
    /\ pc = "mkdir"
    /\ \E honest \in {mkdirOk, mkdirFail} :
       \E o \in sshOutcomes(canConnect(config, hostUp), honest) :
          LET r == remoteCommand(o, TRUE)
          IN  /\ lastExec' = [cmd |-> "ssh-mkdir", o |-> o]
              /\ created' = IF executeCommand(o).ok THEN "ok" ELSE "failed"
              /\ destExists' = (destExists \/ (honest = mkdirOk /\ o \notin SshDown))
              /\ IF r.ok
                 THEN /\ pc' = "list"
                      /\ child' = listChild(config, destExists')
                      /\ ops' = Append(ops, "list")
                      /\ UNCHANGED <<exitCode, error>>
                 ELSE /\ Exit(1, DestError(programConfig))
                      /\ ops' = ops
    /\ UNCHANGED <<world, run, configFile, hostUp, snaps, now, srcOk, destOk,
                   latestBackupDir, rsyncCmd, logged, prev>>
    /\ inflight' = spawned(closed(inflight, child), child')
    /\ UNCHANGED aside

\* The outcomes the listing can meet.
listOutcomes ==
    IF child = "ssh-ls"
    THEN sshOutcomes(canConnect(config, hostUp), lsOutcome(config, matching(config, snaps)))
    ELSE IF child = "ls" THEN {lsOutcome(config, matching(config, snaps))}
    ELSE {NoOutcome}

\* getLatestBackupDir() resolves; the command is composed and spawned.
Listed ==
    /\ pc = "list"
    /\ \E o \in listOutcomes :
          LET latest == getLatestBackupDir(child, o)
          IN  /\ latestBackupDir' = latest
              /\ lastExec' = IF child = "none" THEN lastExec ELSE [cmd |-> child, o |-> o]
              /\ rsyncCmd' = rsyncCmdOf(config, programConfig, latest, stampedAt)
              /\ logged' = logged \cup backupLog(config, programConfig, latest, stampedAt)
    /\ pc' = "sync"
    /\ child' = "rsync"
    /\ ops' = Append(ops, "sync")
    /\ UNCHANGED <<world, run, configFile, destExists, hostUp, snaps, now, srcOk, destOk, created,
                   error, exitCode, prev>>
    /\ inflight' = spawned(closed(inflight, child), child')
    /\ UNCHANGED aside

\* S with the directory e written: a directory of that name is replaced.
put(S, e) == {f \in S : f.name # e.name} \cup {e}

\* rsync ends.  When it ran it made the snapshot directory (always, if it
\* exited 0); in archive mode it gives the directory the modification time
\* of the source directory, which is any time up to now.
SyncDone ==
    /\ pc = "sync"
    /\ \E o \in rsyncOutcomes, made \in BOOLEAN, mtime \in 0..now :
          /\ o.spawnError => ~made
          /\ (~o.spawnError /\ o.code = 0) => made
          /\ (config.isRemoteSrc \/ config.isRemoteDest) /\ ~canConnect(config, hostUp)
                => ~made
          /\ snaps' = IF made
                      THEN put(snaps, Snap(backupName(programConfig, stampedAt), stampedAt, mtime))
                      ELSE snaps
          /\ written' = IF made
                        THEN LET name == backupName(programConfig, stampedAt)
                             IN  [name |-> name,
                                  complete |-> \/ ~o.spawnError /\ o.code = 0
                                               \/ written.name = name /\ written.complete]
                        ELSE written
          /\ lastExec' = [cmd |-> "rsync", o |-> o]
          /\ IF executeCommand(o).ok THEN Exit(0, NoError) ELSE Exit(1, ExecError)
    /\ UNCHANGED <<world, run, configFile, destExists, hostUp, now, srcOk, destOk, created,
                   latestBackupDir, rsyncCmd, logged, ops, prev>>
    /\ inflight' = spawned(closed(inflight, child), child')
    /\ UNCHANGED idle

\* The next process is started with the same options.
NextRun ==
    /\ pc = "exit"
    /\ prev' = [ran |-> TRUE, ok |-> exitCode = 0, synced |-> child = "none" /\ lastExec.cmd = "rsync",
                name |-> backupName(programConfig, stampedAt)]
    /\ hostUp' \in HostFacts(candidateOf(argv, options, files))
    /\ pc' = "start"
    /\ config' = NoConfig
    /\ programConfig' = NoConfig
    /\ stampedAt' = 0
    /\ srcOk' = "unchecked"
    /\ destOk' = "unchecked"
    /\ created' = "no"
    /\ latestBackupDir' = <<>>
    /\ rsyncCmd' = <<>>
    /\ error' = NoError
    /\ exitCode' = NoCode
    /\ logged' = {}
    /\ ops' = <<>>
    /\ lastExec' = NoExec
    /\ configFile' = <<>>
    /\ inflight' = {}
    /\ UNCHANGED aside
    /\ UNCHANGED <<world, destExists, snaps, now, child>>

\* A second passes, between runs or while rsync runs.
Tick ==
    /\ now < MaxClock
    /\ pc \in {"sync", "exit"}
    /\ now' = now + 1
    /\ UNCHANGED <<world, configFile, inflight, aside, destExists, hostUp, snaps, pc,
                   child, config, programConfig, stampedAt, srcOk, destOk, created,
                   latestBackupDir, rsyncCmd, error, exitCode, logged, ops, lastExec, prev>>

Next ==
    \/ Start
    \/ SrcChecked
    \/ DestChecked
    \/ MkdirDone
    \/ Listed
    \/ SyncDone
    \/ NextRun
    \/ Tick

Spec == Init /\ [][Next]_vars

\* The steps of one run: each is taken when the promise the run awaits
\* settles, which it does when the child closes or errors.
Step ==
    \/ Start
    \/ SrcChecked
    \/ DestChecked
    \/ MkdirDone
    \/ Listed
    \/ SyncDone

\* One process started with options on its command line that name a source
\* and a destination, local or remote, with or without a user and a host.
InitOnce ==
    /\ Init
    /\ argv = Flags
    /\ options.src = PStr(<<"/", "data">>)
    /\ options.dest = PStr(<<"/", "bk">>)
    /\ options.excludeFrom = PUndefined
    /\ options.remoteRole \in {Undefined, Str("src"), Str("dest")}
    /\ options.remoteUser \in {Undefined, Str(""), Str("u")}
    /\ options.remoteHost \in {Undefined, Str("h")}

\* One run in which every spawned command closes or errors in the end, and
\* the event loop then resumes the run.
FairSpec == InitOnce /\ [][Step]_vars /\ WF_vars(Step)

-----------------------------------------------------------------------------
(* Names generated at two instants *)

\* No process has started; two instants are given.
InitStamp ==
    /\ NotStarted
    /\ NoLogging
    /\ NoCalls
    /\ t1 \in Instants
    /\ t2 \in Instants
    /\ names = <<>>

\* backup() takes its suffix at t1 and, in another run, at t2.
Stamp ==
    /\ names = <<>>
    /\ names' = <<nameAt(DefaultPrefix, t1), nameAt(DefaultPrefix, t2)>>
    /\ UNCHANGED <<process, logger, library, assigned, t1, t2>>

NextStamp == Stamp

SpecStamp == InitStamp /\ [][NextStamp]_vars

-----------------------------------------------------------------------------
(* exec.ts: a process that uses the logger *)

\* The logFile of the configurations getLogger is called with.
LogFiles == {PUndefined, PStr(<<>>), PStr(<<"/", "var", "a.log">>), PStr(<<"b.log">>)}

\* new Logger(logFilePath), the id-th instance made; opened is whether
\* mkdirSync and createWriteStream returned without throwing.
newLogger(id, logFile, opened) ==
    LET given == POrElse(logFile, <<>>)
        logFilePath == IF given = <<>> THEN <<>>
                       ELSE IF isAbsolute(given) THEN given ELSE join(cwd, given)
    IN  [id |-> id, logFilePath |-> logFilePath,
         stream |-> IF logFilePath # <<>> /\ opened THEN "open" ELSE "null"]

\* getLogger, had it made a new instance for a configuration with another logFile.
getLoggerPerFile(instance, id, logFile, opened) ==
    IF instance = NoLogger \/ instance.logFilePath # newLogger(id, logFile, opened).logFilePath
    THEN newLogger(id, logFile, opened)
    ELSE instance

getLogger(instance, id, logFile, opened) ==
    IF instance = NoLogger THEN newLogger(id, logFile, opened) ELSE instance

\* A line of the console: a logged message, or a complaint of the logger.
Line(kind, level, n) == [kind |-> kind, level |-> level, n |-> n, time |-> now]

\* What _log writes to the stream, had it not looked at the stream's state.
logAnyway(instance, lines, logType, n) ==
    IF instance.logFilePath # <<>>
    THEN Append(lines, [path |-> instance.logFilePath, level |-> logType, n |-> n])
    ELSE lines

\* _log: what the file streams hold after the n-th message.
log(instance, lines, logType, n) ==
    IF instance.stream # "null"
    THEN Append(lines, [path |-> instance.logFilePath, level |-> logType, n |-> n])
    ELSE lines

\* getLogger(config) is called with a logFile of F.
getLoggerCalled(F) ==
    /\ Len(getLoggerCalls) < MaxGetLogger
    /\ \E logFile \in F, opened \in BOOLEAN :
          LET id == Len(getLoggerCalls) + 1
              got == getLogger(loggerInstance, id, logFile, opened)
          IN  /\ loggerInstance' = got
              /\ assigned' = IF got.id = id
                             THEN [assigned EXCEPT !.loggerInstance = @ + 1]
                             ELSE assigned
              /\ getLoggerCalls' = Append(getLoggerCalls, [logFile |-> logFile, got |-> got.id])
              /\ console' = IF got.id = id /\ got.logFilePath # <<>> /\ ~opened
                            THEN Append(console, Line("logger", "error", 0))
                            ELSE console
    /\ UNCHANGED <<process, stamps, library, logCalls, fileLines>>

GetLogger == getLoggerCalled(LogFiles)

\* logger.log, logger.error or logger.warn is called with the next message.
Log ==
    /\ loggerInstance # NoLogger
    /\ Len(logCalls) < MaxMessages
    /\ \E logType \in {"log", "error", "warn"} :
          LET n == Len(logCalls) + 1
          IN  /\ logCalls' = Append(logCalls, [level |-> logType, n |-> n])
              /\ console' = Append(console, Line("message", logType, n))
              /\ fileLines' = log(loggerInstance, fileLines, logType, n)
    /\ UNCHANGED <<process, stamps, library, assigned, loggerInstance, getLoggerCalls>>

\* The stream emits 'error'.
StreamError ==
    /\ loggerInstance.stream = "open"
    /\ loggerInstance' = [loggerInstance EXCEPT !.stream = "null"]
    /\ console' = Append(console, Line("logger", "error", 0))
    /\ UNCHANGED <<process, stamps, library, assigned, getLoggerCalls, logCalls, fileLines>>

InitLogger == NotStarted /\ NoStamps /\ NoLogging /\ NoCalls

NextLogger == GetLogger \/ Log \/ StreamError

SpecLogger == InitLogger /\ [][NextLogger]_vars

-----------------------------------------------------------------------------
(* lib.ts: a process that calls backup() as a library, calls overlapping *)

\* The calls made of getConfig, getLogger and backup().
uses == getConfigCalls + Len(getLoggerCalls) + Len(calls)

\* The configurations the host passes to backup().
ConfigA == optionsToConfig(LocalObject, FALSE)
ConfigB ==
    optionsToConfig([NoOptions EXCEPT !.src = PStr(<<"/", "home">>),
                                      !.dest = PStr(<<"/", "mnt">>),
                                      !.rsyncOptions = Str("a"),
                                      !.backupPrefix = PStr(<<"W-">>)], FALSE)

Configs == {ConfigA, ConfigB}

\* getConfig, had it loaded the configuration at every call.
getConfigReloaded(cache, loaded) == [value |-> loaded.config, assigns |-> TRUE]

\* getConfig around its cache: the configuration returned, and whether the
\* module-level config is assigned; loaded is what parsing yields.
getConfigCached(cache, loaded) ==
    IF cache = NoConfig THEN [value |-> loaded.config, assigns |-> TRUE]
    ELSE [value |-> cache, assigns |-> FALSE]

\* What a step of backup() acts on, read from the module's config c and the
\* parameter pc0: the path probed or made, the pattern listed, the command.
effect(op, c, pc0, latest, t) ==
    [op |-> op,
     path |-> IF op = "srcCheck" THEN c.src.p
              ELSE IF op \in {"destCheck", "mkdir", "list"} THEN c.dest.p
              ELSE <<>>,
     remote |-> IF op = "srcCheck" THEN c.isRemoteSrc
                ELSE IF op \in {"destCheck", "mkdir", "list"} THEN c.isRemoteDest
                ELSE FALSE,
     prefix |-> IF op = "list" THEN POrElse(c.backupPrefix, DefaultPrefix) ELSE <<>>,
     cmd |-> IF op = "sync" THEN rsyncCmdOf(c, pc0, latest, t) ELSE <<>>]

\* The i-th call of backup() moves to position q having done step op.
moved(i, q, op, latest) ==
    [calls EXCEPT
       ![i].pc = q,
       ![i].latest = latest,
       ![i].did = Append(@, effect(op, config, calls[i].programConfig, latest,
                                   calls[i].stampedAt))]

\* The i-th call of backup() settles.
settled(i, q) == [calls EXCEPT ![i].pc = q]

\* getConfig() is called; the first call loads the configuration, and
\* optionsToConfig fetches the logger.
CallGetConfig ==
    /\ uses < MaxUses
    /\ getConfigCalls' = getConfigCalls + 1
    /\ LET loaded == getConfig(argv, options, files, excludeExists)
           r == getConfigCached(cachedConfig, loaded)
           id == Len(getLoggerCalls) + 1
           got == getLogger(loggerInstance, id, PUndefined, TRUE)
       IN  /\ loaded.ok
           /\ cachedConfig' = r.value
           /\ IF r.assigns
              THEN /\ loggerInstance' = got
                   /\ getLoggerCalls' = Append(getLoggerCalls,
                                               [logFile |-> PUndefined, got |-> got.id])
                   /\ assigned' = [assigned EXCEPT
                                     !.cachedConfig = @ + 1,
                                     !.loggerInstance = @ + IF got.id = id THEN 1 ELSE 0]
              ELSE UNCHANGED <<loggerInstance, getLoggerCalls, assigned>>
    /\ UNCHANGED <<process, stamps, calls, logCalls, console, fileLines>>

\* The host calls getLogger for its log file.
CallGetLogger == uses < MaxUses /\ getLoggerCalled({PStr(<<"/", "var", "a.log">>)})

\* backup(c) is called, once for each configuration of the host, and runs
\* to its first await, in existsSrcPath().
CallBackup ==
    /\ uses < MaxUses
    /\ \E c \in Configs :
          /\ \A i \in DOMAIN calls : calls[i].programConfig # c
          /\ config' = c
          /\ assigned' = [assigned EXCEPT !.config = @ + 1]
          /\ calls' = Append(calls, [programConfig |-> c, pc |-> "srcCheck", stampedAt |-> now,
                                     latest |-> <<>>,
                                     did |-> <<effect("srcCheck", c, c, <<>>, now)>>])
    /\ UNCHANGED <<others, written, stamps, logger, cachedConfig, getConfigCalls>>

\* existsSrcPath() resolves in the i-th call: it throws, or goes on into
\* existsDestPath().
SrcResolved ==
    /\ \E i \in DOMAIN calls, found \in BOOLEAN :
          /\ calls[i].pc = "srcCheck"
          /\ calls' = IF found THEN moved(i, "destCheck", "destCheck", <<>>)
                      ELSE settled(i, "rejected")
    /\ UNCHANGED <<process, stamps, logger, cachedConfig, getConfigCalls, assigned>>

\* existsDestPath() resolves: on to getLatestBackupDir(), or first into
\* createDestDir(), whose mkdirSync may throw.
DestResolved ==
    /\ \E i \in DOMAIN calls, found \in BOOLEAN, mkdirSyncOk \in BOOLEAN :
          /\ calls[i].pc = "destCheck"
          /\ calls' = IF found THEN moved(i, "list", "list", <<>>)
                      ELSE IF mkdirSyncOk THEN moved(i, "mkdir", "mkdir", <<>>)
                      ELSE settled(i, "rejected")
    /\ UNCHANGED <<process, stamps, logger, cachedConfig, getConfigCalls, assigned>>

\* createDestDir() resolves: on to getLatestBackupDir().
MkdirResolved ==
    /\ \E i \in DOMAIN calls :
          /\ calls[i].pc = "mkdir"
          /\ calls' = moved(i, "list", "list", <<>>)
    /\ UNCHANGED <<process, stamps, logger, cachedConfig, getConfigCalls, assigned>>

\* getLatestBackupDir() resolves, to null or to the directory listed; the
\* command is composed and spawned.
ListResolved ==
    /\ \E i \in DOMAIN calls, found \in BOOLEAN :
          /\ calls[i].pc = "list"
          /\ LET listed == calls[i].did[Len(calls[i].did)]
                 latest == IF found
                           THEN listed.path \o prefixed(listed.prefix, suffixAt(0))
                           ELSE <<>>
             IN  calls' = moved(i, "sync", "sync", latest)
    /\ UNCHANGED <<process, stamps, logger, cachedConfig, getConfigCalls, assigned>>

\* The command ends and the call settles.
SyncResolved ==
    /\ \E i \in DOMAIN calls, ok \in BOOLEAN :
          /\ calls[i].pc = "sync"
          /\ calls' = settled(i, IF ok THEN "resolved" ELSE "rejected")
    /\ UNCHANGED <<process, stamps, logger, cachedConfig, getConfigCalls, assigned>>

InitCalls ==
    /\ InitProcess
    /\ argv = Flags /\ options = LocalObject /\ snaps = {}
    /\ ~srcExists /\ ~destExists
    /\ NoStamps /\ NoLogging /\ NoCalls

NextCalls ==
    \/ CallGetConfig
    \/ CallGetLogger
    \/ CallBackup
    \/ SrcResolved
    \/ DestResolved
    \/ MkdirResolved
    \/ ListResolved
    \/ SyncResolved

SpecCalls == InitCalls /\ [][NextCalls]_vars

-----------------------------------------------------------------------------
(* Properties *)

Range(q) == {q[i] : i \in DOMAIN q}
Count(q, x) == Cardinality({i \in DOMAIN q : q[i] = x})

\* The positions of the option flag in the composed command.
ArgsOf(flag) == {i \in DOMAIN rsyncCmd : rsyncCmd[i].flag = flag}

\* The object the process takes its configuration from: the parsed options,
\* or the object in the configuration file the command line asks for.
candidate == candidateOf(argv, options, files)

\* The process has loaded a valid configuration.
Loaded == programConfig # NoConfig

\* The child ended as executeCommand requires for success.
CleanExit(o) == ~o.spawnError /\ o.code = 0 /\ o.stderr = <<>>

\* C1: in every run that has composed its command, the command has no
\* --link-dest argument if getLatestBackupDir found no previous snapshot, and
\* otherwise exactly one, whose value is "../<basename of that snapshot>/",
\* the name of a directory under the destination.
C1_LinkDestIffPrevious ==
    rsyncCmd # <<>> =>
        IF latestBackupDir = <<>>
        THEN ArgsOf("--link-dest") = {}
        ELSE /\ \E i \in DOMAIN rsyncCmd :
                  /\ ArgsOf("--link-dest") = {i}
                  /\ rsyncCmd[i].val = <<"..", latestBackupDir[Len(latestBackupDir)], "">>
             /\ latestBackupDir[Len(latestBackupDir)] \in {e.name : e \in snaps}

C1_Witness ==
    /\ pc = "sync"
    /\ latestBackupDir # <<>>
    /\ Cardinality(ArgsOf("--link-dest")) = 1

\* C2: a run that follows a successful run, both on a local source and
\* destination, is incremental and its baseline reference is the directory
\* the run before it wrote.
C2_SecondRunLinksFirst ==
    (/\ pc = "sync"
     /\ prev.ran /\ prev.ok
     /\ ~config.isRemoteSrc /\ ~config.isRemoteDest)
    => /\ latestBackupDir # <<>>
       /\ \E i \in ArgsOf("--link-dest") : rsyncCmd[i].val = <<"..", prev.name, "">>

\* C3: when the local source does not exist the run fails with an error
\* that names the configured source path, exits with code 1, and neither
\* probes the destination nor starts the sync command.
LocalSrcMissing == Loaded /\ ~programConfig.isRemoteSrc /\ ~srcExists

C3_MissingSourceAborts ==
    LocalSrcMissing =>
        /\ pc \in {"srcCheck", "exit"}
        /\ "sync" \notin Range(ops)
        /\ child # "rsync"
        /\ pc = "exit" =>
              /\ exitCode = 1
              /\ error.level = "error"
              /\ error.text = "Source directory does not exist."
              /\ error.arg = candidate.src.p

C3_Witness == LocalSrcMissing /\ pc = "exit" /\ exitCode = 1

\* C4: createDestDir() is called exactly once when the destination check
\* gave false and never when it gave true; a remote creation is an ssh
\* command; when the creation fails the run ends with the "could not be
\* created" error, exit code 1, and starts neither the listing nor the sync.
C4_CreateDestOnce ==
    /\ destOk = "false" => Count(ops, "mkdir") = 1 /\ created # "no"
    /\ destOk # "false" => Count(ops, "mkdir") = 0 /\ created = "no"
    /\ created = "pending" <=> (pc = "mkdir" /\ child = "ssh-mkdir")
    /\ pc = "mkdir" => programConfig.isRemoteDest
    /\ created = "failed" =>
          /\ pc = "exit"
          /\ exitCode = 1
          /\ error.text = "Destination directory does not exist and could not be created."
          /\ error.arg = candidate.dest.p
          /\ "list" \notin Range(ops)
          /\ "sync" \notin Range(ops)
    /\ created = "ok" => pc # "mkdir" /\ "list" \in Range(ops)

C4_Witness ==
    /\ created = "failed"
    /\ lastExec.cmd = "ssh-mkdir"
    /\ pc = "exit"

\* C5: the run that started the sync command ends with exit code 0 exactly
\* when rsync was spawned, exited with code 0 and wrote nothing to stderr;
\* in every other case it ends with exit code 1 and the command's error.
C5_SyncFailureIsFatal ==
    (pc = "exit" /\ lastExec.cmd = "rsync") =>
        IF CleanExit(lastExec.o)
        THEN exitCode = 0 /\ error = NoError
        ELSE exitCode = 1 /\ error.text = "Error executing command"

C5_Witness ==
    /\ pc = "exit"
    /\ lastExec.cmd = "rsync"
    /\ lastExec.o.code = 0
    /\ lastExec.o.stderr # <<>>
    /\ exitCode = 1

\* The result of the remote existence probe that ended last.
ProbeResult == IF programConfig.isRemoteSrc THEN srcOk ELSE destOk

\* C6: whatever the ssh command of remoteExists did, the probe resolved to
\* a boolean, and to true exactly when the command ended cleanly and its
\* trimmed output is the single word "exists".
C6_RemoteExistsIsBoolean ==
    lastExec.cmd = "ssh-probe" =>
        /\ ProbeResult \in {"true", "false"}
        /\ ProbeResult = "true" <=>
              /\ CleanExit(lastExec.o)
              /\ lastExec.o.stdout \in {<<"exists">>, <<"exists", "\n">>}

C6_Witness ==
    /\ lastExec.cmd = "ssh-probe"
    /\ CleanExit(lastExec.o)
    /\ lastExec.o.stdout # <<"exists", "\n">>
    /\ ProbeResult = "false"

\* C7: with the host unreachable, a remote source is found missing and the
\* run ends with the source error having done nothing else; a remote
\* destination is found missing and the run goes on to create it.
C7_UnreachableHost ==
    /\ (~hostUp /\ Loaded /\ programConfig.isRemoteSrc /\ pc # "srcCheck") =>
          /\ srcOk = "false"
          /\ pc = "exit"
          /\ exitCode = 1
          /\ error.text = "Source directory does not exist."
          /\ ops = <<"srcCheck">>
    /\ (~hostUp /\ Loaded /\ programConfig.isRemoteDest /\ destOk # "unchecked") =>
          /\ destOk = "false"
          /\ Len(ops) = 3
          /\ ops[3] = "mkdir"
          /\ created # "no"

C7_Witness ==
    /\ ~hostUp
    /\ programConfig.isRemoteDest
    /\ pc = "mkdir"

\* The remote fields that are set in the candidate.
RemoteSet == {f \in {"remoteRole", "remoteUser", "remoteHost"} : candidate[f].t # "undefined"}

\* The process was refused for its candidate.
Refused == pc = "exit" /\ error \in {UsageError, InvalidFileError} /\ exitCode = 1

\* C8: validation refuses options with one or two of the three remote
\* fields set, and options whose role is set to something other than "src"
\* or "dest"; it accepts options with string src and dest and none of the
\* remote fields.
C8_RemoteTripleValidated ==
    pc # "start" =>
        /\ Cardinality(RemoteSet) \in {1, 2} => Refused /\ ~Loaded
        /\ ("remoteRole" \in RemoteSet /\ candidate.remoteRole \notin {Str("src"), Str("dest")})
              => Refused /\ ~Loaded
        /\ (candidate.src.t = "string" /\ candidate.dest.t = "string" /\ RemoteSet = {})
              => Loaded /\ ~Refused

C8_Witness ==
    /\ Refused
    /\ candidate.src.t = "string" /\ candidate.dest.t = "string"
    /\ RemoteSet = {"remoteUser", "remoteHost"}

\* C9: in a loaded configuration isRemoteSrc holds exactly when the role is
\* "src" and isRemoteDest exactly when it is "dest": neither without remote
\* fields, exactly one with a role, never both.
C9_RemoteFlags ==
    Loaded =>
        /\ programConfig.isRemoteSrc <=> candidate.remoteRole = Str("src")
        /\ programConfig.isRemoteDest <=> candidate.remoteRole = Str("dest")
        /\ ~(programConfig.isRemoteSrc /\ programConfig.isRemoteDest)
        /\ RemoteSet = {} => ~programConfig.isRemoteSrc /\ ~programConfig.isRemoteDest
        /\ "remoteRole" \in RemoteSet => programConfig.isRemoteSrc # programConfig.isRemoteDest

C9_Witness ==
    /\ Loaded
    /\ candidate.remoteRole = Str("dest")
    /\ programConfig.isRemoteDest /\ ~programConfig.isRemoteSrc

\* Options with string src and dest and either no remote field or a role
\* of "src" or "dest" with a user and a host that are strings.
ValidOptions ==
    /\ candidate.src.t = "string" /\ candidate.dest.t = "string"
    /\ \/ RemoteSet = {}
       \/ /\ candidate.remoteRole \in {Str("src"), Str("dest")}
          /\ candidate.remoteUser.t = "string"
          /\ candidate.remoteHost.t = "string"

\* C10: with an exclude path whose file is missing the configuration is
\* still loaded, without excludeFrom and with a warning logged, and the
\* composed command has no --exclude-from; with the file present
\* excludeFrom is its absolute path and the command passes it.
C10_MissingExcludeDropped ==
    (pc # "start" /\ ValidOptions
        /\ candidate.excludeFrom.t = "string" /\ candidate.excludeFrom.p # <<>>) =>
        /\ Loaded
        /\ IF ~excludeExists
           THEN /\ programConfig.excludeFrom = PUndefined
                /\ \E m \in logged : m.level = "warn" /\ m.text = "Exclude file not found: "
                /\ ArgsOf("--exclude-from") = {}
           ELSE /\ programConfig.excludeFrom.t = "string"
                /\ programConfig.excludeFrom.p =
                      (IF candidate.excludeFrom.p[1] = "/" THEN candidate.excludeFrom.p
                       ELSE <<"/", "ex">>)
                /\ rsyncCmd # <<>> =>
                      \E i \in DOMAIN rsyncCmd :
                         /\ ArgsOf("--exclude-from") = {i}
                         /\ rsyncCmd[i].val = programConfig.excludeFrom.p

C10_Witness ==
    /\ pc = "sync"
    /\ candidate.excludeFrom = PStr(<<"..", "ex">>)
    /\ ~excludeExists
    /\ programConfig.excludeFrom = PUndefined
    /\ ArgsOf("--exclude-from") = {}

\* The place the command line says the configuration comes from: the file
\* named by --config, else the options if the command line has arguments,
\* else the file .incback of the working directory.
C11_Source ==
    IF argv.config.t = "string" THEN files[argv.config.p]
    ELSE IF argv.length > 2 THEN Json(options)
    ELSE files[DefaultPath]

ConfigError == C11_Source.kind # "json" \/ ~ValidOptions

\* C12: a process whose configuration cannot be had ends with exit code 1
\* at the loading, having loaded no configuration and started no probe, no
\* creation, no listing and no sync.
C12_ConfigErrorExitsFirst ==
    (pc # "start" /\ ConfigError) =>
        /\ pc = "exit"
        /\ exitCode = 1
        /\ error \in {UsageError, InvalidFileError, NotFoundError}
        /\ ~Loaded
        /\ ops = <<>>
        /\ child = "none"
        /\ lastExec = NoExec
        /\ created = "no"
        /\ rsyncCmd = <<>>

C12_Witness ==
    /\ pc = "exit"
    /\ argv = NoArgs
    /\ files[DefaultPath] = Json([LocalObject EXCEPT !.remoteRole = Str("dest"), !.remoteHost = Str("h")])
    /\ exitCode = 1
    /\ ops = <<>>

\* The run did everything: it loaded a configuration, found the source,
\* found or created the destination, and its sync command ended cleanly.
C13_Succeeded ==
    /\ ~ConfigError
    /\ Loaded
    /\ srcOk = "true"
    /\ destOk = "true" \/ (destOk = "false" /\ created = "ok")
    /\ lastExec.cmd = "rsync"
    /\ CleanExit(lastExec.o)

IsPrefix(a, b) == Len(a) <= Len(b) /\ a = SubSeq(b, 1, Len(a))

\* The child an operation awaits, if it spawns one.
C14_ChildrenOf(op) ==
    IF op \in {"srcCheck", "destCheck"} THEN {"ssh-probe"}
    ELSE IF op = "mkdir" THEN {"ssh-mkdir"}
    ELSE IF op = "list" THEN {"ls", "ssh-ls"}
    ELSE {"rsync"}

\* C14: the operations a run has started are, in this order, the source
\* check, the destination check, the creation of the destination (only
\* after a destination check that gave false), the listing and the sync; at
\* most one child of the process is running, it is the child of the
\* operation started last, and none is running when the process has ended.
C14_OneOperationAtATime ==
    /\ \/ IsPrefix(ops, <<"srcCheck", "destCheck", "mkdir", "list", "sync">>)
       \/ IsPrefix(ops, <<"srcCheck", "destCheck", "list", "sync">>)
    /\ "mkdir" \in Range(ops) => destOk = "false"
    /\ Cardinality(inflight) <= 1
    /\ inflight # {} => ops # <<>> /\ inflight \subseteq C14_ChildrenOf(ops[Len(ops)])
    /\ pc = "exit" => inflight = {}

C14_Witness ==
    /\ pc = "sync"
    /\ inflight = {"rsync"}
    /\ ops = <<"srcCheck", "destCheck", "mkdir", "list", "sync">>
    /\ lastExec.cmd = "ssh-ls"

\* The entries directly under the destination whose name starts with the
\* configured prefix.
C15_Entries ==
    LET prefix == programConfig.backupPrefix.p
    IN  {e \in snaps : Len(prefix) = 1 /\ e.name = prefix[1] \o suffixAt(e.t)}

\* What getLatestBackupDir resolved to is an entry of newest modification time.
C15_IsNewest ==
    \E e \in C15_Entries :
        /\ latestBackupDir[Len(latestBackupDir)] = e.name
        /\ \A f \in C15_Entries : f.mtime <= e.mtime

\* The listing command of this run was spawned and ended cleanly.
C15_ListedCleanly == lastExec.cmd \in {"ls", "ssh-ls"} /\ CleanExit(lastExec.o)

\* C15 as stated: getLatestBackupDir resolves to null exactly when no entry
\* under the destination has a name that starts with the prefix, and
\* otherwise to such an entry of newest modification time.
C15_NewestOrNoneExists ==
    pc = "sync" =>
        /\ latestBackupDir = <<>> <=> C15_Entries = {}
        /\ latestBackupDir # <<>> => C15_IsNewest

\* C15, amended: getLatestBackupDir resolves to null exactly when no entry
\* under the destination has a name that starts with the prefix or the
\* listing command did not end cleanly, and otherwise to such an entry of
\* newest modification time.
C15_NewestOrNoneListed ==
    pc = "sync" =>
        /\ latestBackupDir = <<>> <=> (C15_Entries = {} \/ ~C15_ListedCleanly)
        /\ latestBackupDir # <<>> => C15_IsNewest

C15_Witness ==
    /\ pc = "sync"
    /\ lastExec.cmd = "ssh-ls"
    /\ latestBackupDir # <<>>
    /\ \E e, f \in C15_Entries : e.mtime < f.mtime

\* The flag strings made of the letters a, z and c, up to three letters.
C16_Letters == {"a", "z", "c"}
C16_Allowed ==
    C16_Letters \cup {x \o y : x, y \in C16_Letters}
                \cup {x \o y \o z : x, y, z \in C16_Letters}

\* C16: the flag string of every composed command, the text between
\* "rsync -" and " --delete", is made of the letters a, z and c only.
C16_FlagsFromAllowList ==
    rsyncCmd # <<>> =>
        /\ rsyncCmd[1].flag = "rsync"
        /\ rsyncCmd[1].val \in {<<"-" \o s>> : s \in C16_Allowed}

\* The code unit of a character of a generated suffix.
C17_Code(ch) ==
    IF ch = "+" THEN 43 ELSE IF ch = "-" THEN 45 ELSE IF ch = "T" THEN 84
    ELSE 48 + (CHOOSE d \in 0..9 : ToString(d) = ch)

RECURSIVE C17_Less(_, _)
\* a < b as JavaScript compares strings.
C17_Less(a, b) ==
    IF b = <<>> THEN FALSE
    ELSE IF a = <<>> THEN TRUE
    ELSE IF Head(a) = Head(b) THEN C17_Less(Tail(a), Tail(b))
    ELSE C17_Code(Head(a)) < C17_Code(Head(b))

\* Instant a is at least a second before instant b.
C17_Before(a, b) ==
    LET A == <<a.year, a.month, a.day, a.hour, a.minute, a.second>>
        B == <<b.year, b.month, b.day, b.hour, b.minute, b.second>>
    IN  \E k \in 1..6 : A[k] < B[k] /\ \A j \in 1..(k - 1) : A[j] = B[j]

\* C17 as stated: of two instants at least a second apart, the earlier one
\* gives the name that is smaller as a string.
C17_NamesOrdered ==
    (names # <<>> /\ C17_Before(t1, t2)) => C17_Less(names[1], names[2])

\* The years toISOString writes with four digits.
C17_FourDigitYear(i) == i.year >= 0 /\ i.year <= 9999

\* C17, amended: of two instants at least a second apart, both in the years
\* 0 to 9999, the earlier one gives the name that is smaller as a string.
C17_NamesOrderedTo9999 ==
    (names # <<>> /\ C17_Before(t1, t2)
        /\ C17_FourDigitYear(t1) /\ C17_FourDigitYear(t2))
    => C17_Less(names[1], names[2])

C17_Witness ==
    /\ names # <<>>
    /\ t1 = Instant(9999, 10, 10, 10, 0, 9)
    /\ t2 = Instant(9999, 10, 10, 10, 0, 10)
    /\ C17_Less(names[1], names[2])

\* The resolved source and destination paths of the run: [user@host:]path
C18_Resolved(isRemote, path) ==
    IF isRemote
    THEN <<programConfig.remoteUser.s \o "@" \o programConfig.remoteHost.s \o ":">> \o path
    ELSE IF path[1] = "/" THEN path
    ELSE join(cwd, path)

\* C18: the composed command contains --delete once; its source argument
\* is the resolved source path followed by "/"; its destination argument
\* is the resolved destination path followed by "/<prefix><timestamp>/";
\* it has an --exclude-from argument exactly when the configuration has an
\* excludeFrom field.
C18_CommandShape ==
    rsyncCmd # <<>> =>
        LET prefix == programConfig.backupPrefix.p
            stamped == SubSeq(prefix, 1, Len(prefix) - 1)
                       \o <<prefix[Len(prefix)] \o suffixAt(stampedAt)>>
        IN  /\ Cardinality(ArgsOf("--delete")) = 1
            /\ \E i \in DOMAIN rsyncCmd :
                  /\ ArgsOf("src") = {i}
                  /\ rsyncCmd[i].val =
                        C18_Resolved(programConfig.isRemoteSrc, programConfig.src.p) \o <<"">>
            /\ \E i \in DOMAIN rsyncCmd :
                  /\ ArgsOf("dest") = {i}
                  /\ rsyncCmd[i].val =
                        C18_Resolved(programConfig.isRemoteDest, programConfig.dest.p)
                        \o stamped \o <<"">>
            /\ ArgsOf("--exclude-from") # {} <=> programConfig.excludeFrom.t # "undefined"

\* The argument of the composed command that names the source or the
\* destination, without what follows the resolved path.
C19_Argument(flag) ==
    LET val == rsyncCmd[CHOOSE i \in ArgsOf(flag) : TRUE].val
    IN  SubSeq(val, 1, Len(val) - (IF flag = "src" THEN 1 ELSE 2))

\* C19: in the composed command a remote path is "user@host:" followed by
\* the configured path as it is, a local absolute path is the configured
\* path as it is, and a local relative path is the working directory joined
\* with the configured path.
C19_PathResolution ==
    rsyncCmd # <<>> =>
        \A side \in {"src", "dest"} :
            LET path == programConfig[side].p
                isRemote == IF side = "src" THEN candidate.remoteRole = Str("src")
                            ELSE candidate.remoteRole = Str("dest")
                resolved == C19_Argument(side)
            IN  IF isRemote
                THEN resolved = <<candidate.remoteUser.s \o "@" \o candidate.remoteHost.s \o ":">>
                                \o path
                ELSE IF path[1] = "/" THEN resolved = path
                ELSE resolved = normalize(<<>>, cwd \o path)

C19_Witness ==
    /\ pc = "sync"
    /\ programConfig.src = PStr(<<"data">>)
    /\ programConfig.dest = PStr(<<"..", "bk">>)
    /\ C19_Argument("src") = <<"/", "work", "data">>
    /\ C19_Argument("dest") = <<"/", "bk">>

\* A step of the run failed fatally: the source check or the creation of
\* the destination gave a failure, or the sync command did not end cleanly.
C20_Failed ==
    \/ srcOk = "false"
    \/ created = "failed"
    \/ lastExec.cmd = "rsync" /\ ~CleanExit(lastExec.o)

\* The operation a fatal failure belongs to.
C20_FailedOp ==
    IF srcOk = "false" THEN "srcCheck" ELSE IF created = "failed" THEN "mkdir" ELSE "sync"

\* C20: a run starts each of its five operations at most once, and after
\* the fatal failure of one of them the process has ended with the failed
\* operation as the last one started and no child running.
C20_NoRetry ==
    /\ \A op \in {"srcCheck", "destCheck", "mkdir", "list", "sync"} : Count(ops, op) <= 1
    /\ C20_Failed =>
          /\ pc = "exit"
          /\ exitCode = 1
          /\ ops # <<>> /\ ops[Len(ops)] = C20_FailedOp
          /\ child = "none"
          /\ inflight = {}

C20_Witness ==
    /\ pc = "exit"
    /\ created = "failed"
    /\ lastExec.cmd = "ssh-mkdir"
    /\ lastExec.o.code = 1
    /\ ops = <<"srcCheck", "destCheck", "mkdir">>
    /\ prev.ran

\* C21: every call of getLogger returned the instance the first call made,
\* which is the instance the module holds, and its file path is the one the
\* first caller configured, whatever later callers configured; before the
\* first call there is no instance.
C21_OneLogger ==
    IF getLoggerCalls = <<>> THEN loggerInstance = NoLogger
    ELSE /\ \A i \in DOMAIN getLoggerCalls : getLoggerCalls[i].got = 1
         /\ loggerInstance.id = 1
         /\ LET asked == getLoggerCalls[1].logFile
            IN  loggerInstance.logFilePath =
                   (IF asked.t = "undefined" \/ asked.p = <<>> THEN <<>>
                    ELSE IF asked.p[1] = "/" THEN asked.p
                    ELSE <<"/", "work">> \o asked.p)

C21_Witness ==
    /\ Len(getLoggerCalls) = 2
    /\ getLoggerCalls[1].logFile = PStr(<<"b.log">>)
    /\ getLoggerCalls[2].logFile = PStr(<<"/", "var", "a.log">>)
    /\ loggerInstance.logFilePath = <<"/", "work", "b.log">>

\* C22: the console holds every logged message, in order and at its level,
\* whatever became of the stream; the file holds, tagged with their levels,
\* exactly the messages logged before the logger's first complaint (failed
\* initialization or stream error) when the first caller configured a log
\* file, and nothing otherwise.
C22_Complaints == {i \in DOMAIN console : console[i].kind = "logger"}

C22_BeforeFailure ==
    IF C22_Complaints = {} THEN console
    ELSE SubSeq(console, 1, (CHOOSE i \in C22_Complaints : \A j \in C22_Complaints : i <= j) - 1)

C22_IsMessage(l) == l.kind = "message"

C22_ConsoleAlwaysFileWhileHealthy ==
    /\ Len(SelectSeq(console, C22_IsMessage)) = Len(logCalls)
    /\ \A i \in DOMAIN logCalls :
          LET l == SelectSeq(console, C22_IsMessage)[i]
          IN  l.level = logCalls[i].level /\ l.n = logCalls[i].n
    /\ LET configured == getLoggerCalls # <<>> /\ PTruthy(getLoggerCalls[1].logFile)
           kept == IF configured THEN SelectSeq(C22_BeforeFailure, C22_IsMessage) ELSE <<>>
       IN  /\ Len(fileLines) = Len(kept)
           /\ \A i \in DOMAIN kept :
                 /\ fileLines[i].level = kept[i].level
                 /\ fileLines[i].n = kept[i].n
                 /\ fileLines[i].path = loggerInstance.logFilePath

C22_Witness ==
    /\ Len(logCalls) = 2
    /\ Len(fileLines) = 1
    /\ Len(console) = 3
    /\ console[2].kind = "logger"
    /\ loggerInstance.stream = "null"

\* C23 (as stated): each module-level variable is assigned at most once.
C23_AssignedOnce ==
    /\ assigned.cachedConfig <= 1
    /\ assigned.loggerInstance <= 1
    /\ assigned.config <= 1

\* C23 (amended): the cached configuration and the logger instance are
\* assigned at most once, by the first call that needs them, and keep their
\* value; backup.ts's config is assigned once by every call of backup(), and
\* holds the parameter of the latest call.
C23_AssignedOncePerCall ==
    /\ assigned.cachedConfig = (IF getConfigCalls > 0 THEN 1 ELSE 0)
    /\ assigned.loggerInstance = (IF getLoggerCalls # <<>> THEN 1 ELSE 0)
    /\ (getConfigCalls > 0) =>
          cachedConfig = getConfig(argv, options, files, excludeExists).config
    /\ assigned.config = Len(calls)
    /\ calls # <<>> => config = calls[Len(calls)].programConfig

C23_Witness ==
    /\ getConfigCalls = 2
    /\ Len(getLoggerCalls) = 2
    /\ Len(calls) = 2
    /\ calls[1].programConfig # calls[2].programConfig
    /\ assigned = [cachedConfig |-> 1, loggerInstance |-> 1, config |-> 2]

\* C26: every step a call of backup() has done acted on what the
\* configuration passed to that call names: its paths, its pattern, and the
\* command composed from it.
C26_OwnConfiguration ==
    \A i \in DOMAIN calls :
       \A k \in DOMAIN calls[i].did :
          LET own == calls[i].programConfig
              e == calls[i].did[k]
          IN  e = effect(e.op, own, own,
                         IF e.op = "sync" THEN calls[i].latest ELSE <<>>,
                         calls[i].stampedAt)

\* C24: a failed ssh command is treated by what it was for.  A failed
\* listing resolves to "" and the run goes on to the sync without a previous
\* snapshot; a failed existence probe counts as "does not exist"; a failed
\* remote mkdir ends the run with the destination error and no sync; and a
\* remote destination with an empty user or host is refused by remoteCommand
\* before any mkdir is spawned, with the same end.
C24_Failed == lastExec # NoExec /\ ~executeCommand(lastExec.o).ok

C24_TransportAsymmetry ==
    /\ (lastExec.cmd = "ssh-ls" /\ C24_Failed) =>
          /\ remoteCommand(lastExec.o, FALSE) = Resolved(<<>>)
          /\ pc = "sync" /\ latestBackupDir = <<>> /\ error = NoError
    /\ (lastExec.cmd = "ssh-probe" /\ C24_Failed) =>
          /\ ~remoteExists(lastExec.o)
          /\ IF config.isRemoteSrc THEN srcOk = "false" ELSE destOk = "false"
    /\ (lastExec.cmd = "ssh-mkdir" /\ C24_Failed) =>
          /\ ~remoteCommand(lastExec.o, TRUE).ok
          /\ pc = "exit" /\ exitCode = 1 /\ error = DestError(programConfig)
          /\ rsyncCmd = <<>>
    /\ (config.isRemoteDest /\ remoteCommandRefuses(config) /\ destOk = "false") =>
          /\ pc = "exit" /\ exitCode = 1 /\ error = DestError(programConfig)
          /\ created = "failed" /\ lastExec.cmd = "ssh-probe" /\ rsyncCmd = <<>>

C24_Witness ==
    /\ lastExec.cmd = "ssh-ls" /\ C24_Failed
    /\ lastExec.o.code = 255
    /\ pc = "sync"
    /\ prev # NoPrev

\* C25: in an incremental run the baseline is another directory than the
\* one the run writes: the previous snapshot's name differs from the name
\* of the snapshot being made.
C25_BaselineIsNotTarget ==
    (pc = "sync" /\ latestBackupDir # <<>>) =>
        basename(latestBackupDir) # backupName(programConfig, stampedAt)

\* C27: the baseline of an incremental run is a snapshot directory that an
\* earlier run's sync wrote and completed (rsync exited 0); stated of the
\* snapshot written last.
C27_BaselineIsComplete ==
    (pc = "sync" /\ latestBackupDir # <<>> /\ basename(latestBackupDir) = written.name)
        => written.complete

\* C28: when the listing command fails (ssh fails, a non-zero exit, or
\* anything on stderr) the run has no previous snapshot, goes on to the
\* sync, and composes the command of an initial backup: no baseline
\* reference, whatever snapshots the destination holds.
C28_ListingFailed ==
    /\ pc = "sync"
    /\ lastExec.cmd \in {"ls", "ssh-ls"}
    /\ ~executeCommand(lastExec.o).ok

C28_FailedListingMeansInitial ==
    C28_ListingFailed =>
        /\ latestBackupDir = <<>>
        /\ child = "rsync" /\ "rsync" \in inflight
        /\ error = NoError /\ exitCode = NoCode
        /\ rsyncCmd = rsyncCmdOf(config, programConfig, <<>>, stampedAt)
        /\ \A i \in DOMAIN rsyncCmd : rsyncCmd[i].flag # "--link-dest"

C28_Witness ==
    /\ C28_ListingFailed
    /\ lastExec.cmd = "ssh-ls"
    /\ lastExec.o.stdout # <<>>
    /\ matching(config, snaps) # {}
    /\ rsyncCmd # <<>>

\* C29: a run started with a validated configuration never meets the error
\* "remoteCommand requires remoteUser and remoteHost in configuration": no
\* run has a remote destination whose creation remoteCommand refused for an
\* empty user or host.
C29_RefusalUnreachable ==
    ~(/\ config.isRemoteDest
      /\ isProgramOptions(candidate)
      /\ remoteCommandRefuses(config)
      /\ created = "failed"
      /\ lastExec.cmd # "ssh-mkdir")

\* C30: every run that has not settled settles in the end: from every state
\* of a run the process reaches its exit, with the promise of backup()
\* resolved or rejected.
C30_EveryRunSettles == (pc # "exit") ~> (pc = "exit")

C30_Witness ==
    /\ pc = "exit"
    /\ exitCode = 0
    /\ lastExec.cmd = "rsync"
    /\ ops = <<"srcCheck", "destCheck", "mkdir", "list", "sync">>
    /\ config.isRemoteSrc

====
